---- MODULE Spec2Model ----
(***************************************************************************)
(* getSecularAndDiffusionTimes.py: secular and diffusion timescales of a   *)
(* test particle perturbed by one planet.                                  *)
(*                                                                         *)
(* The program's numbers are real quantities built from the inputs by      *)
(* products, quotients, half-integer powers and (in the Laplace integrand) *)
(* sums of rationals.  They are modelled exactly, as                       *)
(*      (n / d) * pi^(pi/2) * PROD_i Basis[i]^(e[i]/2)                     *)
(* with n/d a reduced fraction coprime to the primes of Basis, so that     *)
(* x**0.5, x**-2.5, x**-2 and 9.55e-4 are computed, not assumed.  Floating *)
(* point rounding is not modelled.                                         *)
(***************************************************************************)
EXTENDS Integers, Sequences, FiniteSets, TLC

(***************************************************************************)
(* Exact arithmetic                                                        *)
(***************************************************************************)
Basis == <<2, 3, 5, 7, 13, 191>>

BasisIdx == 1..Len(Basis)

ZeroExp == [i \in BasisIdx |-> 0]

IAbs(k) == IF k < 0 THEN -k ELSE k

ISign(k) == IF k < 0 THEN -1 ELSE IF k = 0 THEN 0 ELSE 1

RECURSIVE Gcd(_, _)
Gcd(a, b) == IF b = 0 THEN a ELSE Gcd(b, a % b)

RECURSIVE IPow(_, _)
IPow(b, k) == IF k = 0 THEN 1 ELSE b * IPow(b, k - 1)

\* multiplicity of the prime p in k > 0
RECURSIVE Mult(_, _)
Mult(k, p) == IF k % p = 0 THEN 1 + Mult(k \div p, p) ELSE 0

RECURSIVE StripFrom(_, _)
StripFrom(k, i) ==
  IF i > Len(Basis) THEN k
  ELSE StripFrom(k \div IPow(Basis[i], Mult(k, Basis[i])), i + 1)

\* k > 0 with every prime of Basis divided out
Strip(k) == StripFrom(k, 1)

\* the exact integer square root of a perfect square
ISqrt(k) == CHOOSE r \in 0..k : r * r = k

Zero == [n |-> 0, d |-> 1, pi |-> 0, e |-> ZeroExp]

\* the number (n / d) * pi^(pi/2) * PROD Basis[i]^(e[i]/2), d > 0, in canonical form
Canon(n, d, pi, e) ==
  IF n = 0 THEN Zero
  ELSE LET an == IAbs(n)
           sn == Strip(an)
           sd == Strip(d)
           g  == Gcd(sn, sd)
       IN [n  |-> ISign(n) * (sn \div g),
           d  |-> sd \div g,
           pi |-> pi,
           e  |-> [i \in BasisIdx |->
                     e[i] + 2 * (Mult(an, Basis[i]) - Mult(d, Basis[i]))]]

Frac(n, d) == Canon(n, d, 0, ZeroExp)

Int2Num(k) == Frac(k, 1)

One == Int2Num(1)

Pi == [n |-> 1, d |-> 1, pi |-> 2, e |-> ZeroExp]

IsZero(x) == x.n = 0

IsPositive(x) == x.n > 0

Mul(x, y) ==
  IF x.n = 0 \/ y.n = 0 THEN Zero
  ELSE LET g == Gcd(IAbs(x.n * y.n), x.d * y.d)
       IN [n  |-> (x.n * y.n) \div g,
           d  |-> (x.d * y.d) \div g,
           pi |-> x.pi + y.pi,
           e  |-> [i \in BasisIdx |-> x.e[i] + y.e[i]]]

\* 1 / x for x # 0
Inv(x) ==
  [n  |-> ISign(x.n) * x.d,
   d  |-> IAbs(x.n),
   pi |-> -x.pi,
   e  |-> [i \in BasisIdx |-> -x.e[i]]]

\* x / y for y # 0
Div(x, y) == Mul(x, Inv(y))

Neg(x) == [x EXCEPT !.n = -x.n]

NAbs(x) == [x EXCEPT !.n = IAbs(x.n)]

\* x ** (k/2) for x > 0, or x # 0 and k even; k may be negative
PowHalf(x, k) ==
  LET ak == IAbs(k)
      rn == IF ak % 2 = 0 THEN IPow(x.n, ak \div 2) ELSE IPow(ISqrt(x.n), ak)
      rd == IF ak % 2 = 0 THEN IPow(x.d, ak \div 2) ELSE IPow(ISqrt(x.d), ak)
      p  == [n  |-> rn,
             d  |-> rd,
             pi |-> (x.pi * ak) \div 2,
             e  |-> [i \in BasisIdx |-> (x.e[i] * ak) \div 2]]
  IN IF k = 0 THEN One
     ELSE IF x.n = 0 THEN Zero
     ELSE IF k > 0 THEN p ELSE Inv(p)

\* x ** k, integer k >= 0
PowInt(x, k) == PowHalf(x, 2 * k)

RECURSIVE ProdPos(_, _, _)
ProdPos(e, s, i) ==
  IF i > Len(Basis) THEN 1
  ELSE (IF s * e[i] > 0 THEN IPow(Basis[i], (s * e[i]) \div 2) ELSE 1) * ProdPos(e, s, i + 1)

\* numerator and denominator of a rational x (no pi, no square roots)
NumOf(x) == x.n * ProdPos(x.e, 1, 1)

DenOf(x) == x.d * ProdPos(x.e, -1, 1)

Add(x, y) ==
  LET dx == DenOf(x)
      dy == DenOf(y)
  IN Frac(NumOf(x) * dy + NumOf(y) * dx, dx * dy)

Sub(x, y) == Add(x, Neg(y))

Less(x, y) == NumOf(x) * DenOf(y) < NumOf(y) * DenOf(x)

Leq(x, y) == NumOf(x) * DenOf(y) <= NumOf(y) * DenOf(x)

\* Python's min(x, y): y when y < x, else x
Min(x, y) == IF Less(y, x) THEN y ELSE x

(***************************************************************************)
(* Values a call can produce: a number, numpy's inf or nan, a finite float *)
(* the source does not determine, or a raised ZeroDivisionError.  `at` is  *)
(* the source line that produced the value or raised.                      *)
(***************************************************************************)
Value(v, line) == [k |-> "num", v |-> v, at |-> line]

InfValue(line) == [k |-> "inf", v |-> Zero, at |-> line]

NanValue(line) == [k |-> "nan", v |-> Zero, at |-> line]

Unspecified(line) == [k |-> "unspecified", v |-> Zero, at |-> line]

Raise(line) == [k |-> "ZeroDivisionError", v |-> Zero, at |-> line]

\* what a call leaves behind: its result, the helper calls it evaluated in
\* order, its local alpha (Zero when never bound) and the module namespace
Outcome(ret, calls, alpha, g) == [ret |-> ret, calls |-> calls, alpha |-> alpha, g |-> g]

CallOf(fn, args) == [fn |-> fn, args |-> args]

NoCall == CallOf("none", <<>>)

(***************************************************************************)
(* Bounds of the explored inputs                                           *)
(***************************************************************************)
MaxA == 4

MaxMStar == 2

MaxMPlt == 2

AVals == {Int2Num(k) : k \in 0..MaxA}

MStarVals == {Int2Num(k) : k \in 0..MaxMStar}

MPltVals == {Int2Num(k) : k \in 0..MaxMPlt}

\* the smaller inputs of the runs that keep an earlier result
KeepMaxA == 2

KeepMaxMStar == 1

KeepMaxMPlt == 2

KeepAVals == {Int2Num(k) : k \in 1..KeepMaxA}

KeepMStarVals == {Int2Num(k) : k \in 1..KeepMaxMStar}

KeepMPltVals == {Int2Num(k) : k \in 0..KeepMaxMPlt}

KeepAlphaVals == {Frac(n, d) : n \in 1..KeepMaxA, d \in 1..KeepMaxA}

\* (j, 2s) pairs of the direct Laplace-coefficient calls
LaplaceOrders == {<<1, 3>>, <<1, 1>>, <<2, 2>>, <<0, 2>>}

\* alpha arguments of the direct Laplace-coefficient calls
AlphaVals == {Frac(n, d) : n \in 1..MaxA, d \in 1..MaxA}

\* what scipy's quad hands back when the integrand has a pole on [0, 2 pi]
QuadAtPoleOutcomes == {"inf", "nan", "unspecified"}

(***************************************************************************)
(* State                                                                   *)
(***************************************************************************)
VARIABLES
  globals,     \* the module namespace: the user inputs and mJup_mSun
  quadAtPole,  \* the build's answer for an integrand with a pole
  call,        \* the last call made: function and arguments
  out,         \* its Outcome
  prev         \* an earlier call and its outcome, kept for comparison

vars == <<globals, quadAtPole, call, out, prev>>

\* lines 20-33
InitialGlobals ==
  [mStar_mSun |-> Int2Num(1),
   mPlt_mJup  |-> Int2Num(1),
   aPlt_au    |-> Frac(26, 5),
   aTest_au   |-> Int2Num(6),
   mJup_mSun  |-> Frac(955, 1000000)]

(***************************************************************************)
(* GetOrbitalPeriod_yr, lines 104-113                                      *)
(***************************************************************************)
\* a slip: a_au**2 for a_au**3
MeanMotionSquaredAxis(a, mStar) ==
  PowHalf(NAbs(Div(Mul(Mul(Int2Num(4), PowInt(Pi, 2)), mStar), PowInt(a, 2))), 1)

\* line 108 past the division: abs(4*np.pi**2 * mStar_mSun / a_au**3)**.5
MeanMotion(a, mStar) ==
  PowHalf(NAbs(Div(Mul(Mul(Int2Num(4), PowInt(Pi, 2)), mStar), PowInt(a, 3))), 1)

GetOrbitalPeriod_yr(a, mStar) ==
  IF IsZero(PowInt(a, 3)) THEN Outcome(Raise(108), <<>>, Zero, globals)
  ELSE LET n_radPerYr == MeanMotion(a, mStar)
       IN IF IsZero(n_radPerYr) THEN Outcome(Raise(111), <<>>, Zero, globals)
          ELSE Outcome(Value(Div(Mul(Int2Num(2), Pi), n_radPerYr), 113), <<>>, Zero, globals)

(***************************************************************************)
(* GetLaplaceCoefficient, lines 36-44                                      *)
(*                                                                         *)
(* scipy.integrate.quad is outside the repository.  It is modelled by the  *)
(* periodic trapezoid rule on psi_k = k*pi/2, k = 0..4, where np.cos and   *)
(* the integrand are exact; an integrand with a pole on [0, 2 pi] makes    *)
(* the quadrature's answer the build's (quadAtPole).                       *)
(***************************************************************************)
\* np.cos(k * pi/2)
CosQuarter(k) == CASE k % 4 = 0 -> 1 [] k % 4 = 2 -> -1 [] OTHER -> 0

QuadNodes == 0..4

TrapezoidWeight(k) == IF k = 0 \/ k = 4 THEN Frac(1, 2) ELSE One

\* line 40, the base of the denominator at cos(psi) = c
LaplaceBase(alpha, c) ==
  Add(Sub(One, Mul(Int2Num(2), Mul(alpha, c))), PowInt(alpha, 2))

\* line 40 at psi = k*pi/2; numpy's float64 division by 0.0 gives inf or nan, no raise
LaplaceIntegrand(j, s2, alpha, k) ==
  LET cosj == CosQuarter(j * k)
      base == LaplaceBase(alpha, Int2Num(CosQuarter(k)))
  IN IF IsZero(base) THEN (IF cosj = 0 THEN NanValue(40) ELSE InfValue(40))
     ELSE IF cosj = 0 THEN Value(Zero, 40)
     ELSE Value(Div(Int2Num(cosj), PowHalf(base, s2)), 40)

RECURSIVE TrapezoidSum(_, _, _, _)
TrapezoidSum(j, s2, alpha, k) ==
  IF k > 4 THEN Zero
  ELSE Add(Mul(TrapezoidWeight(k), LaplaceIntegrand(j, s2, alpha, k).v),
           TrapezoidSum(j, s2, alpha, k + 1))

\* integrate.quad(laplaceCoefficientIntegrand, 0, 2*np.pi)[0]
Quad(j, s2, alpha) ==
  IF \E k \in QuadNodes : LaplaceIntegrand(j, s2, alpha, k).k # "num"
  THEN [k |-> quadAtPole, v |-> Zero, at |-> 42]
  ELSE Value(Mul(Div(Pi, Int2Num(2)), TrapezoidSum(j, s2, alpha, 0)), 42)

\* line 42: 1.0 / np.pi * quad(...)[0]; s is given doubled (s2 = 2s)
GetLaplaceCoefficient(j, s2, alpha) ==
  LET q == Quad(j, s2, alpha)
  IN IF q.k = "num" THEN Outcome(Value(Mul(Inv(Pi), q.v), 44), <<>>, alpha, globals)
     ELSE Outcome(q, <<>>, alpha, globals)

(***************************************************************************)
(* Pieces shared by the two timescale functions                            *)
(***************************************************************************)
\* a slip: the guard written as mPlt_mJup < 0
IsZeroMassNegativeOnly(mPlt) == mPlt.n < 0

\* a slip: the guard left out
IsZeroMassNever(mPlt) == FALSE

\* lines 55 and 87: if mPlt_mJup == 0
IsZeroMass(mPlt) == IsZero(mPlt)

\* lines 58 and 90: mPlt_mSun = mPlt_mJup * mJup_mSun, mJup_mSun read from the module
PlanetMass_mSun(mPlt) == Mul(mPlt, globals.mJup_mSun)

\* a slip: the product assigned to the module's mJup_mSun instead of a local
GlobalsMassConversionLeaks(g, mPlt_mSun) == [g EXCEPT !.mJup_mSun = mPlt_mSun]

\* lines 58 and 90 bind a local name: the module namespace g is left as it is
GlobalsAfterMassConversion(g, mPlt_mSun) == g

\* a variant: alpha as min(a)/max(a), which raises only when both axes are zero
AlphaRaisesBothZero(aPlt, aTest) == IsZero(aTest) /\ IsZero(aPlt)

\* lines 62 and 93: Python's float division raises when either quotient's divisor is zero
AlphaRaises(aPlt, aTest) == IsZero(aTest) \/ IsZero(aPlt)

\* a slip: the min left out
AlphaPlanetOverTest(aPlt, aTest) == Div(aPlt, aTest)

\* lines 62 and 93: min(aPlt_au/aTest_au, aTest_au/aPlt_au), both axes non-zero
Alpha(aPlt, aTest) == Min(Div(aPlt, aTest), Div(aTest, aPlt))

\* the calls recorded in an Outcome
OrbitalPeriodCall(a, mStar) == CallOf("GetOrbitalPeriod_yr", <<a, mStar>>)

LaplaceCall(j, s2, alpha) == CallOf("GetLaplaceCoefficient", <<Int2Num(j), Frac(s2, 2), alpha>>)

\* a slip: the period taken at the test particle's axis
PlanetPeriodAtTest(mStar, aPlt, aTest) ==
  LET o == GetOrbitalPeriod_yr(aTest, mStar)
  IN [ret |-> o.ret, calls |-> <<OrbitalPeriodCall(aTest, mStar)>> \o o.calls]

\* lines 65 and 96: tPlt_yr = GetOrbitalPeriod_yr(aPlt_au, mStar_mSun)
PlanetPeriod(mStar, aPlt, aTest) ==
  LET o == GetOrbitalPeriod_yr(aPlt, mStar)
  IN [ret |-> o.ret, calls |-> <<OrbitalPeriodCall(aPlt, mStar)>> \o o.calls]

(***************************************************************************)
(* GetSecularTimescale_yr, lines 47-78                                     *)
(***************************************************************************)
\* a slip: the two exponents exchanged
SecularBranchSwapped(aPlt, aTest) ==
  IF Leq(aPlt, aTest) THEN [line |-> 72, e2 |-> -1] ELSE [line |-> 76, e2 |-> -5]

\* a slip: aPlt < aTest for aPlt <= aTest
SecularBranchStrict(aPlt, aTest) ==
  IF Less(aPlt, aTest) THEN [line |-> 72, e2 |-> -5] ELSE [line |-> 76, e2 |-> -1]

\* lines 71-76: the branch taken and twice its exponent of alpha
SecularBranch(aPlt, aTest) ==
  IF Leq(aPlt, aTest) THEN [line |-> 72, e2 |-> -5] ELSE [line |-> 76, e2 |-> -1]

\* lines 72 and 76: 4.*tPlt_yr / mPlt_mStar * alpha**e / b1_32
SecularFormula(tPlt, ratio, alpha, e2, b, line) ==
  IF IsZero(ratio) THEN Raise(line)
  ELSE LET front == Mul(Div(Mul(Int2Num(4), tPlt), ratio), PowHalf(alpha, e2))
       IN CASE b.k = "num" ->
                 IF IsZero(b.v) THEN Raise(line) ELSE Value(Div(front, b.v), line)
            [] b.k = "inf" -> Value(Zero, line)
            [] b.k = "nan" -> NanValue(line)
            [] OTHER -> Unspecified(line)

GetSecularTimescale_yr(mStar, mPlt, aPlt, aTest) ==
  IF IsZeroMass(mPlt) THEN Outcome(InfValue(55), <<>>, Zero, globals)
  ELSE
    LET mPlt_mSun == PlanetMass_mSun(mPlt)
        g == GlobalsAfterMassConversion(globals, mPlt_mSun)
    IN IF IsZero(mStar) THEN Outcome(Raise(59), <<>>, Zero, g)
       ELSE IF AlphaRaises(aPlt, aTest) THEN Outcome(Raise(62), <<>>, Zero, g)
       ELSE
         LET mPlt_mStar == Div(mPlt_mSun, mStar)
             alpha == Alpha(aPlt, aTest)
             tPlt == PlanetPeriod(mStar, aPlt, aTest)
         IN IF tPlt.ret.k # "num" THEN Outcome(tPlt.ret, tPlt.calls, alpha, g)
            ELSE
              LET b1_32 == GetLaplaceCoefficient(1, 3, alpha)
                  br == SecularBranch(aPlt, aTest)
              IN Outcome(SecularFormula(tPlt.ret.v, mPlt_mStar, alpha, br.e2,
                                        b1_32.ret, br.line),
                         tPlt.calls \o <<LaplaceCall(1, 3, alpha)>> \o b1_32.calls,
                         alpha, g)

(***************************************************************************)
(* GetDiffusionTimescale_yr, lines 81-101                                  *)
(***************************************************************************)
\* a slip: the mass ratio to the power -1
DiffusionFormulaInverseMass(tPlt, mPlt_mSun, mStar, alpha) ==
  IF IsZero(mStar) THEN Raise(99)
  ELSE LET ratio == Div(mPlt_mSun, mStar)
       IN IF IsZero(ratio) THEN Raise(99)
          ELSE Value(Mul(Mul(Mul(Frac(1, 100), tPlt), PowHalf(alpha, 1)),
                         PowHalf(ratio, -2)), 99)

\* line 99: 0.01 * tPlt_yr * alpha**0.5 * (mPlt_mSun / mStar_mSun)**-2
DiffusionFormula(tPlt, mPlt_mSun, mStar, alpha) ==
  IF IsZero(mStar) THEN Raise(99)
  ELSE LET ratio == Div(mPlt_mSun, mStar)
       IN IF IsZero(ratio) THEN Raise(99)
          ELSE Value(Mul(Mul(Mul(Frac(1, 100), tPlt), PowHalf(alpha, 1)),
                         PowHalf(ratio, -4)), 99)

GetDiffusionTimescale_yr(mStar, mPlt, aPlt, aTest) ==
  IF IsZeroMass(mPlt) THEN Outcome(InfValue(87), <<>>, Zero, globals)
  ELSE
    LET mPlt_mSun == PlanetMass_mSun(mPlt)
        g == GlobalsAfterMassConversion(globals, mPlt_mSun)
    IN IF AlphaRaises(aPlt, aTest) THEN Outcome(Raise(93), <<>>, Zero, g)
       ELSE
         LET alpha == Alpha(aPlt, aTest)
             tPlt == PlanetPeriod(mStar, aPlt, aTest)
         IN IF tPlt.ret.k # "num" THEN Outcome(tPlt.ret, tPlt.calls, alpha, g)
            ELSE Outcome(DiffusionFormula(tPlt.ret.v, mPlt_mSun, mStar, alpha),
                         tPlt.calls, alpha, g)

(***************************************************************************)
(* The state machine: a caller that makes any sequence of calls.  A call   *)
(* runs to completion in one step; Return hands the result to the caller   *)
(* and drops the frame.                                                    *)
(***************************************************************************)
NoOutcome == Outcome(Value(Zero, 1), <<>>, Zero, InitialGlobals)

NoPrev == [call |-> NoCall, out |-> NoOutcome]

Init ==
  /\ globals = InitialGlobals
  /\ quadAtPole \in QuadAtPoleOutcomes
  /\ call = NoCall
  /\ out = NoOutcome
  /\ prev = NoPrev

CallSecular(Ms, Ps, As) ==
  \E mStar \in Ms, mPlt \in Ps, aPlt \in As, aTest \in As :
    /\ call = NoCall
    /\ call' = CallOf("GetSecularTimescale_yr", <<mStar, mPlt, aPlt, aTest>>)
    /\ out' = GetSecularTimescale_yr(mStar, mPlt, aPlt, aTest)
    /\ globals' = out'.g
    /\ UNCHANGED <<quadAtPole, prev>>

CallDiffusion(Ms, Ps, As) ==
  \E mStar \in Ms, mPlt \in Ps, aPlt \in As, aTest \in As :
    /\ call = NoCall
    /\ call' = CallOf("GetDiffusionTimescale_yr", <<mStar, mPlt, aPlt, aTest>>)
    /\ out' = GetDiffusionTimescale_yr(mStar, mPlt, aPlt, aTest)
    /\ globals' = out'.g
    /\ UNCHANGED <<quadAtPole, prev>>

CallOrbitalPeriod(Ms, As) ==
  \E a \in As, mStar \in Ms :
    /\ call = NoCall
    /\ call' = OrbitalPeriodCall(a, mStar)
    /\ out' = GetOrbitalPeriod_yr(a, mStar)
    /\ globals' = out'.g
    /\ UNCHANGED <<quadAtPole, prev>>

CallLaplace(Os, Al) ==
  \E js \in Os, alpha \in Al :
    /\ call = NoCall
    /\ Leq(alpha, One)
    /\ call' = LaplaceCall(js[1], js[2], alpha)
    /\ out' = GetLaplaceCoefficient(js[1], js[2], alpha)
    /\ globals' = out'.g
    /\ UNCHANGED <<quadAtPole, prev>>

\* the caller takes the result
Return ==
  /\ call # NoCall
  /\ call' = NoCall
  /\ out' = NoOutcome
  /\ UNCHANGED <<globals, quadAtPole, prev>>

\* the caller takes the result and keeps it to compare with a later call's
ReturnAndKeep ==
  /\ call # NoCall
  /\ prev' = [call |-> call, out |-> out]
  /\ call' = NoCall
  /\ out' = NoOutcome
  /\ UNCHANGED <<globals, quadAtPole>>

Next ==
  \/ CallSecular(MStarVals, MPltVals, AVals)
  \/ CallDiffusion(MStarVals, MPltVals, AVals)
  \/ CallOrbitalPeriod(MStarVals, AVals)
  \/ CallLaplace(LaplaceOrders, AlphaVals)
  \/ Return

Spec == Init /\ [][Next]_vars

\* sequences of calls in which an earlier result is kept, over the smaller inputs
NextKeep ==
  \/ CallSecular(KeepMStarVals, KeepMPltVals, KeepAVals)
  \/ CallDiffusion(KeepMStarVals, KeepMPltVals, KeepAVals)
  \/ CallOrbitalPeriod(KeepMStarVals, KeepAVals)
  \/ CallLaplace({<<1, 3>>}, KeepAlphaVals)
  \/ Return
  \/ ReturnAndKeep

SpecKeep == Init /\ [][NextKeep]_vars

(***************************************************************************)
(* Reading the state                                                       *)
(***************************************************************************)
IsSecular == call.fn = "GetSecularTimescale_yr"

IsDiffusion == call.fn = "GetDiffusionTimescale_yr"

IsTimescale == IsSecular \/ IsDiffusion

IsPeriod == call.fn = "GetOrbitalPeriod_yr"

IsLaplace == call.fn = "GetLaplaceCoefficient"

\* the arguments of a timescale call
ArgMStar == call.args[1]

ArgMPlt == call.args[2]

ArgAPlt == call.args[3]

ArgATest == call.args[4]

\* a timescale call on the data model's inputs: positive star mass and axes
PositiveInputs ==
  /\ IsTimescale
  /\ IsPositive(ArgMStar)
  /\ IsPositive(ArgAPlt)
  /\ IsPositive(ArgATest)

\* smaller axis over larger axis
SmallOverLarge(x, y) == IF Less(x, y) THEN Div(x, y) ELSE Div(y, x)

\* cos(psi) for psi over [0, 2 pi], sampled in steps of 1/CosDen; cos(0) = cos(2 pi) = 1
CosDen == 4

CosSamples == {Frac(n, CosDen) : n \in (-CosDen)..CosDen}

(***************************************************************************)
(* C1                                                                      *)
(***************************************************************************)
\* C1: a timescale call with mPlt = 0 returns the infinite sentinel, whatever
\* the star mass and the two axes are (zero included): no error, no number.
ZeroMassGivesInfinity ==
  (IsTimescale /\ IsZero(ArgMPlt)) => out.ret.k = "inf"

ZeroMassWitness ==
  /\ IsSecular
  /\ IsZero(ArgMPlt)
  /\ IsZero(ArgMStar)
  /\ IsZero(ArgAPlt)
  /\ out.ret.k = "inf"

(***************************************************************************)
(* C2                                                                      *)
(***************************************************************************)
SecularExpected(e2) ==
  LET alpha == SmallOverLarge(ArgAPlt, ArgATest)
      tPlt == GetOrbitalPeriod_yr(ArgAPlt, ArgMStar).ret.v
      b == GetLaplaceCoefficient(1, 3, alpha).ret.v
      massRatio == Div(Mul(ArgMPlt, InitialGlobals.mJup_mSun), ArgMStar)
  IN Mul(Mul(Mul(Int2Num(4), tPlt), Inv(massRatio)), Div(PowHalf(alpha, e2), b))

\* C2: for mPlt # 0 the secular timescale is 4 tPlt / (mPlt/mStar) * alpha^e / b,
\* computed on the internal branch with e = -2.5 exactly when aPlt <= aTest
\* (equal axes included) and on the external branch with e = -0.5 exactly
\* when aPlt > aTest.
SecularBranchAndFormula ==
  (IsSecular /\ PositiveInputs /\ ~IsZero(ArgMPlt)) =>
    /\ Leq(ArgAPlt, ArgATest) => out.ret.at = 72
    /\ Less(ArgATest, ArgAPlt) => out.ret.at = 76
    /\ Less(ArgAPlt, ArgATest) => out.ret = Value(SecularExpected(-5), 72)
    /\ Less(ArgATest, ArgAPlt) => out.ret = Value(SecularExpected(-1), 76)

SecularExternalWitness ==
  /\ IsSecular /\ PositiveInputs /\ ~IsZero(ArgMPlt)
  /\ Less(ArgATest, ArgAPlt)
  /\ out.ret.k = "num"
  /\ out.ret.at = 76

(***************************************************************************)
(* C3                                                                      *)
(***************************************************************************)
DiffusionExpected ==
  LET alpha == SmallOverLarge(ArgAPlt, ArgATest)
      tPlt == GetOrbitalPeriod_yr(ArgAPlt, ArgMStar).ret.v
      mPlt_mSun == Mul(ArgMPlt, InitialGlobals.mJup_mSun)
  IN Mul(Mul(Frac(1, 100), Mul(tPlt, PowHalf(alpha, 1))),
         Div(PowInt(ArgMStar, 2), PowInt(mPlt_mSun, 2)))

\* the other test-particle axes that give the same alpha about the same planet
SameAlphaAxes ==
  {a2 \in AVals : /\ IsPositive(a2)
                  /\ a2 # ArgATest
                  /\ SmallOverLarge(ArgAPlt, a2) = SmallOverLarge(ArgAPlt, ArgATest)}

\* C3: for mPlt # 0 the diffusion timescale is the one formula
\* 0.01 tPlt alpha^0.5 (mPlt/mStar)^-2 on either side of the planet, so a test
\* axis inside and one outside with the same alpha give the same timescale.
DiffusionSingleFormula ==
  (IsDiffusion /\ PositiveInputs /\ ~IsZero(ArgMPlt)) =>
    /\ out.ret = Value(DiffusionExpected, 99)
    /\ \A a2 \in SameAlphaAxes :
         GetDiffusionTimescale_yr(ArgMStar, ArgMPlt, ArgAPlt, a2).ret = out.ret

DiffusionSameAlphaWitness ==
  /\ IsDiffusion /\ PositiveInputs /\ ~IsZero(ArgMPlt)
  /\ SameAlphaAxes # {}
  /\ out.ret.k = "num"

(***************************************************************************)
(* C4                                                                      *)
(***************************************************************************)
\* the alpha the same function binds when the two axes are swapped
SwappedAlpha ==
  IF IsSecular THEN GetSecularTimescale_yr(ArgMStar, ArgMPlt, ArgATest, ArgAPlt).alpha
  ELSE GetDiffusionTimescale_yr(ArgMStar, ArgMPlt, ArgATest, ArgAPlt).alpha

\* C4: for positive axes aPlt # aTest, the alpha both timescale functions
\* compute is the smaller axis over the larger, strictly between 0 and 1, and
\* the same when the axes are swapped.
AlphaInUnitInterval ==
  (PositiveInputs /\ ~IsZero(ArgMPlt) /\ ArgAPlt # ArgATest) =>
    /\ Less(Zero, out.alpha)
    /\ Less(out.alpha, One)
    /\ out.alpha = SmallOverLarge(ArgAPlt, ArgATest)
    /\ out.alpha = SwappedAlpha

AlphaWitness ==
  /\ IsDiffusion /\ PositiveInputs /\ ~IsZero(ArgMPlt)
  /\ Less(ArgATest, ArgAPlt)
  /\ out.alpha = Div(ArgATest, ArgAPlt)
  /\ Less(out.alpha, One)

(***************************************************************************)
(* C5                                                                      *)
(***************************************************************************)
\* C5: for positive a and mStar the orbital period is positive and satisfies
\* period^2 * mStar = a^3; doubling a multiplies it by 2^1.5 and four times
\* the star mass halves it.
KeplerThirdLaw ==
  (IsPeriod /\ IsPositive(call.args[1]) /\ IsPositive(call.args[2])) =>
    LET a == call.args[1]
        mStar == call.args[2]
    IN /\ out.ret.k = "num"
       /\ IsPositive(out.ret.v)
       /\ Mul(PowInt(out.ret.v, 2), mStar) = PowInt(a, 3)
       /\ GetOrbitalPeriod_yr(Mul(Int2Num(2), a), mStar).ret.v
            = Mul(PowHalf(Int2Num(2), 3), out.ret.v)
       /\ GetOrbitalPeriod_yr(a, Mul(Int2Num(4), mStar)).ret.v
            = Div(out.ret.v, Int2Num(2))

KeplerWitness ==
  /\ IsPeriod
  /\ call.args[1] = Int2Num(2)
  /\ call.args[2] = Int2Num(2)
  /\ out.ret = Value(Int2Num(2), 113)

(***************************************************************************)
(* C6 (under SpecKeep)                                                     *)
(***************************************************************************)
\* C6: a call with the arguments of an earlier call returns what the earlier
\* call returned, whatever was called in between, and no call changes the
\* module-level inputs or mJup_mSun.
PureAndDeterministic ==
  /\ globals = InitialGlobals
  /\ (call # NoCall /\ prev.call = call) => out = prev.out

RepeatedCallWitness ==
  /\ IsSecular
  /\ prev.call = call
  /\ out.ret.k = "num"
  /\ out = prev.out

(***************************************************************************)
(* C7                                                                      *)
(***************************************************************************)
\* C7: on valid inputs (mStar > 0, mPlt >= 0, positive distinct axes) both
\* timescale functions return a value, the sentinel for mPlt = 0 and a
\* positive number otherwise, and every divisor on the way is non-zero: a^3,
\* the mean motion, the Laplace integrand's base at every psi, and b.
TotalOnValidInputs ==
  (PositiveInputs /\ ArgAPlt # ArgATest) =>
    /\ IsZero(ArgMPlt) => out.ret.k = "inf"
    /\ ~IsZero(ArgMPlt) =>
         /\ out.ret.k = "num"
         /\ IsPositive(out.ret.v)
         /\ ~IsZero(PowInt(ArgAPlt, 3))
         /\ ~IsZero(MeanMotion(ArgAPlt, ArgMStar))
         /\ \A c \in CosSamples : IsPositive(LaplaceBase(out.alpha, c))
         /\ IsSecular =>
              LET b == GetLaplaceCoefficient(1, 3, out.alpha).ret
              IN b.k = "num" /\ ~IsZero(b.v)

TotalWitness ==
  /\ IsSecular /\ PositiveInputs
  /\ Less(ArgAPlt, ArgATest)
  /\ ~IsZero(ArgMPlt)
  /\ out.ret.k = "num"
  /\ Len(out.calls) = 2

(***************************************************************************)
(* C8                                                                      *)
(***************************************************************************)
ZeroAxis == IsZero(ArgAPlt) \/ IsZero(ArgATest)

\* C8 as stated: with mPlt # 0 and a zero axis the division by zero is the
\* one in GetOrbitalPeriod_yr (lines 108-111), not an earlier one.
ZeroAxisFailsInOrbitalPeriod ==
  (IsTimescale /\ ~IsZero(ArgMPlt) /\ IsPositive(ArgMStar) /\ ZeroAxis) =>
    /\ out.ret.k = "ZeroDivisionError"
    /\ out.ret.at \in 104..113

\* C8 amended: with mPlt # 0, mStar > 0 and a zero axis nothing is validated
\* and the division by zero is raised by the alpha quotients (line 62 in the
\* secular function, line 93 in the diffusion function) before
\* GetOrbitalPeriod_yr is called; GetOrbitalPeriod_yr called with a = 0
\* raises at its own division by a^3 (line 108).
ZeroAxisFailsAtAlpha ==
  /\ (IsTimescale /\ ~IsZero(ArgMPlt) /\ IsPositive(ArgMStar) /\ ZeroAxis) =>
       /\ out.ret.k = "ZeroDivisionError"
       /\ out.ret.at = (IF IsSecular THEN 62 ELSE 93)
       /\ out.calls = <<>>
  /\ (IsPeriod /\ IsZero(call.args[1])) => out.ret = Raise(108)

ZeroAxisWitness ==
  /\ IsDiffusion
  /\ ~IsZero(ArgMPlt)
  /\ IsPositive(ArgMStar)
  /\ IsPositive(ArgAPlt)
  /\ IsZero(ArgATest)
  /\ out.ret = Raise(93)

(***************************************************************************)
(* C9                                                                      *)
(***************************************************************************)
EqualAxes ==
  IsSecular /\ PositiveInputs /\ ~IsZero(ArgMPlt) /\ ArgAPlt = ArgATest

\* C9 as stated: with equal axes alpha = 1, the internal branch is taken,
\* and the integrand's base is non-zero at every psi of [0, 2 pi].
EqualAxesBaseNeverZero ==
  EqualAxes =>
    /\ out.alpha = One
    /\ out.ret.at = 72
    /\ \A c \in CosSamples : ~IsZero(LaplaceBase(out.alpha, c))

\* C9 amended: with equal axes the call is not guarded, alpha = 1, the
\* internal branch (line 72) is taken and the power term alpha^-2.5 is 1, but
\* the integrand's base 1 - 2 alpha cos(psi) + alpha^2 is zero exactly where
\* cos(psi) = 1, the endpoints psi = 0 and psi = 2 pi, and positive elsewhere:
\* b is the quadrature of an integrand with poles, which the source leaves
\* undetermined.
EqualAxesBaseZeroAtEndpoints ==
  EqualAxes =>
    /\ out.alpha = One
    /\ out.ret.at = 72
    /\ out.calls[2] = LaplaceCall(1, 3, One)
    /\ PowHalf(out.alpha, -5) = One
    /\ \A c \in CosSamples :
         IF c = One THEN IsZero(LaplaceBase(out.alpha, c))
         ELSE IsPositive(LaplaceBase(out.alpha, c))
    /\ GetLaplaceCoefficient(1, 3, out.alpha).ret.k = quadAtPole

EqualAxesWitness ==
  /\ EqualAxes
  /\ ArgAPlt = Int2Num(2)
  /\ quadAtPole = "nan"
  /\ out.ret = NanValue(72)

(***************************************************************************)
(* C10                                                                     *)
(***************************************************************************)
\* C10: the helpers call none of the four functions; for mPlt # 0 on
\* positive inputs the secular function evaluates GetOrbitalPeriod_yr once,
\* at aPlt, then GetLaplaceCoefficient once with (1, 1.5, alpha), and the
\* diffusion function evaluates GetOrbitalPeriod_yr once at aPlt and nothing
\* else; for mPlt = 0 neither evaluates a helper.
CallDependencies ==
  /\ (IsPeriod \/ IsLaplace) => out.calls = <<>>
  /\ (IsTimescale /\ IsZero(ArgMPlt)) => out.calls = <<>>
  /\ (IsSecular /\ PositiveInputs /\ ~IsZero(ArgMPlt)) =>
       out.calls = <<OrbitalPeriodCall(ArgAPlt, ArgMStar),
                     LaplaceCall(1, 3, SmallOverLarge(ArgAPlt, ArgATest))>>
  /\ (IsDiffusion /\ PositiveInputs /\ ~IsZero(ArgMPlt)) =>
       out.calls = <<OrbitalPeriodCall(ArgAPlt, ArgMStar)>>
  /\ IsDiffusion =>
       \A i \in 1..Len(out.calls) : out.calls[i].fn # "GetLaplaceCoefficient"

CallDependenciesWitness ==
  /\ IsSecular /\ PositiveInputs /\ ~IsZero(ArgMPlt)
  /\ Less(ArgATest, ArgAPlt)
  /\ Len(out.calls) = 2
  /\ out.calls[1].args[1] = ArgAPlt
  /\ out.calls[2].fn = "GetLaplaceCoefficient"

====
